---- MODULE Spec2Model ----
(***************************************************************************)
(* Model of scripts/generate_allocations.py: the supply aggregator, the    *)
(* allocation engine, the scenario loop of generate_allocations and the    *)
(* summarizer.                                                             *)
(*                                                                         *)
(* Numbers.  Python computes with binary floating point; here every        *)
(* quantity is an exact rational [num, den] (den > 0, lowest terms), and   *)
(* round(x, n) is the round-half-to-even of the exact value.  A float      *)
(* differs from the exact value by a relative error near 1e-16, which      *)
(* changes a rounded result only when the exact value sits on a rounding   *)
(* tie.  The result of every arithmetic operation goes through Fl, the     *)
(* rounding of the machine's float format: with mantissa_bits = 0 nothing  *)
(* is rounded (exact arithmetic); with mantissa_bits = p > 0 the result is *)
(* rounded to the nearest number of p significant bits, ties to even, as   *)
(* IEEE 754 does with p = 53.                                              *)
(*                                                                         *)
(* Objects.  Python dicts are mutable objects reached through references:  *)
(* heap is the sequence of all record objects, and the lists of the        *)
(* program (demand_data, allocations, ...) hold indices into heap.         *)
(***************************************************************************)
EXTENDS Integers, Sequences, FiniteSets, TLC

VARIABLES
    mantissa_bits,          \* significant bits of a float, 0 for exact arithmetic
    files,                  \* data_dir: file name -> JSON content
    pc,                     \* position in generate_allocations
    raised,                 \* "none", or the exception that ended the run
    heap,                   \* every dict object created so far
    supply_data,            \* list loaded from supply.json (values, never written)
    demand_data,            \* list loaded from demand.json (references into heap)
    scenarios,              \* the list the loop of line 147 goes through
    exp_i,                  \* index of the current experiment (loop of line 147)
    supply_by_service_area, \* the capacity map of the current experiment
    demand_by_area_epoch,   \* groups, in dict insertion order
    group_i,                \* index of the current group (loop of line 62)
    total_supply,
    total_demand,
    allocation_ratio,
    remaining_supply,
    sorted_entities,
    ent_i,                  \* index of the next entity (loop of line 82)
    fair_share,
    allocated,
    allocations,            \* allocate_capacity's result list (references)
    all_allocations,        \* references
    summary

vars == <<mantissa_bits, files, pc, raised, heap, supply_data, demand_data, scenarios, exp_i,
          supply_by_service_area, demand_by_area_epoch, group_i, total_supply,
          total_demand, allocation_ratio, remaining_supply, sorted_entities,
          ent_i, fair_share, allocated, allocations, all_allocations, summary>>

----------------------------------------------------------------------------
(* Exact rational arithmetic *)

Abs(n) == IF n < 0 THEN -n ELSE n

RECURSIVE GCD(_, _)
GCD(a, b) == IF b = 0 THEN a ELSE GCD(b, a % b)

\* the rational n/d (d # 0) in lowest terms with a positive denominator
Rat(n, d) ==
    LET g == GCD(Abs(n), Abs(d))
        s == IF d < 0 THEN -1 ELSE 1
    IN  [num |-> (s * n) \div g, den |-> (s * d) \div g]

Zero == Rat(0, 1)
One == Rat(1, 1)
Hundred == Rat(100, 1)

\* a and b over their least common denominator: <<numerator of a, numerator
\* of b, denominator>> (the products stay small)
Common(a, b) ==
    LET g == GCD(a.den, b.den)
    IN  <<a.num * (b.den \div g), b.num * (a.den \div g), (a.den \div g) * b.den>>

RatAdd(a, b) == LET c == Common(a, b) IN Rat(c[1] + c[2], c[3])
RatSub(a, b) == LET c == Common(a, b) IN Rat(c[1] - c[2], c[3])
\* cross-cancelled first, for the same reason
RatMul(a, b) ==
    LET x == Rat(a.num, b.den)
        y == Rat(b.num, a.den)
    IN  Rat(x.num * y.num, x.den * y.den)
RatDiv(a, b) == RatMul(a, Rat(b.den, b.num))
RatLE(a, b) == LET c == Common(a, b) IN c[1] <= c[2]
RatLT(a, b) == LET c == Common(a, b) IN c[1] < c[2]
RatMin(a, b) == IF RatLE(a, b) THEN a ELSE b

\* the sum of f[k] over the keys k of S
RECURSIVE SumOver(_, _)
SumOver(f, S) ==
    IF S = {} THEN Zero
    ELSE LET k == CHOOSE x \in S : TRUE
         IN  RatAdd(f[k], SumOver(f, S \ {k}))

\* the integer nearest to n/d (d > 0), a tie going to the even neighbour
NearestEven(n, d) ==
    LET q == n \div d
        r == n % d
    IN  IF 2 * r < d THEN q
        ELSE IF 2 * r > d THEN q + 1
        ELSE IF q % 2 = 0 THEN q ELSE q + 1

\* Python's round(x, 2) and round(x, 1)
Round2(x) == Rat(NearestEven(x.num * 100, x.den), 100)
Round1(x) == Rat(NearestEven(x.num * 10, x.den), 10)

RECURSIVE Pow2(_)
Pow2(n) == IF n = 0 THEN 1 ELSE 2 * Pow2(n - 1)

\* a positive x brought into [2^(p-1), 2^p) by powers of two: <<x / 2^e, e>>
RECURSIVE Scale(_, _, _)
Scale(x, e, p) ==
    IF RatLE(Rat(Pow2(p), 1), x) THEN Scale(RatMul(x, Rat(1, 2)), e + 1, p)
    ELSE IF RatLT(x, Rat(Pow2(p - 1), 1)) THEN Scale(RatMul(x, Rat(2, 1)), e - 1, p)
    ELSE <<x, e>>

\* x rounded to the nearest number of p significant bits, ties to even
RoundToBits(x, p) ==
    IF x.num = 0 THEN x
    ELSE LET s == Scale(Rat(Abs(x.num), x.den), 0, p)
             m == NearestEven(s[1].num, s[1].den)
             v == IF s[2] >= 0 THEN Rat(m * Pow2(s[2]), 1)
                  ELSE Rat(m, Pow2(-s[2]))
         IN  IF x.num < 0 THEN Rat(-v.num, v.den) ELSE v

\* the float that an arithmetic operation of exact result x returns
Fl(x) == IF mantissa_bits = 0 THEN x ELSE RoundToBits(x, mantissa_bits)

----------------------------------------------------------------------------
(* Records (dicts) *)

\* d[k] = v on a dict value: the key is added or overwritten
SetItem(d, k, v) == [x \in DOMAIN d \cup {k} |-> IF x = k THEN v ELSE d[x]]

\* a dict value without key k
DelItem(d, k) == [x \in DOMAIN d \ {k} |-> d[x]]

Range(s) == {s[i] : i \in DOMAIN s}

\* the record values a list of references denotes
Deref(h, refs) == [i \in DOMAIN refs |-> h[refs[i]]]

----------------------------------------------------------------------------
(* Inputs: the contents data_dir can hold when generate_allocations starts *)

MaxDemand == 2   \* longest demand.json
MaxSupply == 2   \* longest supply.json

Mbps(n) == Rat(n, 1)

Demand(e, a, ep, f, d) ==
    [entity_id |-> e, service_area |-> a, epoch |-> ep, forecast_id |-> f,
     demand_mbps |-> d,
     lat |-> IF e = "e1" THEN 10 ELSE 20,
     lon |-> IF e = "e1" THEN -30 ELSE -40,
     timestamp |-> IF ep = 0 THEN "t0" ELSE "t1"]

\* demand records: the two entities of one group (80 and 20), a second
\* record of e1 in that group (a duplicate entity, and a tie in demand with
\* e2), e1 in a later epoch with a demand finer than a hundredth
\* (7/1000 = 0.007), another area, the other forecast, and a zero demand
DemandRecords ==
    { Demand("e1", "A1", 0, "base_forecast", Mbps(80)),
      Demand("e2", "A1", 0, "base_forecast", Mbps(20)),
      Demand("e1", "A1", 0, "base_forecast", Mbps(20)),
      Demand("e1", "A1", 1, "base_forecast", Rat(7, 1000)),
      Demand("e2", "A2", 0, "base_forecast", Mbps(20)),
      Demand("e1", "A1", 0, "peak_forecast", Mbps(80)),
      Demand("e2", "A1", 0, "base_forecast", Zero) }

Supply(sat, a, p, s) ==
    [satellite_id |-> sat, service_area |-> a, projection_id |-> p,
     supply_mbps |-> s]

\* supply records: one satellite on A1 in each projection (the same supply, so
\* that two records of one projection add up and the two projections can
\* agree), and a satellite that brings A2 a supply of zero
SupplyRecords ==
    { Supply("sat1", "A1", "baseline", Mbps(60)),
      Supply("sat2", "A1", "optimized", Mbps(60)),
      Supply("sat2", "A2", "baseline", Zero) }

SeqsUpTo(S, n) == UNION {[1..k -> S] : k \in 0..n}

\* data_dir holds both input files, or at least one of them is absent
DataDirs ==
    { [f \in {"supply.json", "demand.json"} |->
          IF f = "supply.json" THEN sl ELSE dl] :
        sl \in SeqsUpTo(SupplyRecords, MaxSupply),
        dl \in SeqsUpTo(DemandRecords, MaxDemand) }
    \cup { [f \in present |-> <<>>] :
             present \in {{}, {"supply.json"}, {"demand.json"}} }

----------------------------------------------------------------------------
(* The program *)

\* lines 133-142
experiments ==
    << [name |-> "baseline", forecast |-> "base_forecast", projection |-> "baseline"],
       [name |-> "optimized", forecast |-> "base_forecast", projection |-> "optimized"],
       [name |-> "peak_demand", forecast |-> "peak_forecast", projection |-> "baseline"],
       [name |-> "peak_optimized", forecast |-> "peak_forecast", projection |-> "optimized"] >>

\* lines 33-35, from item i on; acc is the defaultdict(int) built so far
RECURSIVE AggregateFrom(_, _, _, _)
AggregateFrom(supply, projection_id, i, acc) ==
    IF i > Len(supply) THEN acc
    ELSE LET item == supply[i]
             area == item.service_area
             old == IF area \in DOMAIN acc THEN acc[area] ELSE Zero
         IN  IF item.projection_id = projection_id
             THEN AggregateFrom(supply, projection_id, i + 1,
                                SetItem(acc, area,
                                        Fl(RatAdd(old, item.supply_mbps))))
             ELSE AggregateFrom(supply, projection_id, i + 1, acc)

\* faulty variant: the filter of line 34 left out
AggregateAnyProjection(supply, projection_id) ==
    AggregateFrom([i \in DOMAIN supply |->
                     [supply[i] EXCEPT !.projection_id = projection_id]],
                  projection_id, 1, <<>>)

\* aggregate_supply_by_service_area, lines 19-37
aggregate_supply_by_service_area(supply, projection_id) ==
    AggregateFrom(supply, projection_id, 1, <<>>)

\* faulty variant: a record is dropped when its group holds one of the same entity
AppendOncePerEntity(groups, key, ref) ==
    IF \E j \in DOMAIN groups :
          /\ groups[j].key = key
          /\ \E m \in DOMAIN groups[j].entities :
                heap[groups[j].entities[m]]["entity_id"] = heap[ref]["entity_id"]
    THEN groups
    ELSE IF \E j \in DOMAIN groups : groups[j].key = key
    THEN [j \in DOMAIN groups |->
            IF groups[j].key = key
            THEN [key |-> key, entities |-> Append(groups[j].entities, ref)]
            ELSE groups[j]]
    ELSE Append(groups, [key |-> key, entities |-> <<ref>>])

\* demand_by_area_epoch[key].append(ref), the dict kept in insertion order
AppendToGroup(groups, key, ref) ==
    IF \E j \in DOMAIN groups : groups[j].key = key
    THEN [j \in DOMAIN groups |->
            IF groups[j].key = key
            THEN [key |-> key, entities |-> Append(groups[j].entities, ref)]
            ELSE groups[j]]
    ELSE Append(groups, [key |-> key, entities |-> <<ref>>])

\* faulty variant: the test of line 55 left out
RECURSIVE GroupAnyForecast(_, _, _, _, _)
GroupAnyForecast(h, demand, forecast_id, i, groups) ==
    IF i > Len(demand) THEN groups
    ELSE GroupAnyForecast(h, demand, forecast_id, i + 1,
                          AppendToGroup(groups,
                                        <<h[demand[i]]["service_area"],
                                          h[demand[i]]["epoch"]>>,
                                        demand[i]))

\* lines 53-57, from item i on
RECURSIVE GroupFrom(_, _, _, _, _)
GroupFrom(h, demand, forecast_id, i, groups) ==
    IF i > Len(demand) THEN groups
    ELSE LET item == h[demand[i]]
         IN  IF item["forecast_id"] = forecast_id
             THEN GroupFrom(h, demand, forecast_id, i + 1,
                            AppendToGroup(groups,
                                          <<item["service_area"], item["epoch"]>>,
                                          demand[i]))
             ELSE GroupFrom(h, demand, forecast_id, i + 1, groups)

\* sum(entity["demand_mbps"] for entity in entities), line 67, over the
\* first n entities: sum adds from the left, starting at 0
RECURSIVE SumDemand(_, _, _)
SumDemand(h, entities, n) ==
    IF n = 0 THEN Zero
    ELSE Fl(RatAdd(SumDemand(h, entities, n - 1), h[entities[n]]["demand_mbps"]))

\* faulty variant: x put before the elements of equal demand
InsertBeforeEqual(h, sorted, x) ==
    LET before == {j \in DOMAIN sorted :
                      RatLT(h[x]["demand_mbps"], h[sorted[j]]["demand_mbps"])}
        k == Cardinality(before)
    IN  SubSeq(sorted, 1, k) \o <<x>> \o SubSeq(sorted, k + 1, Len(sorted))

\* x put into a list sorted by descending demand, after every element whose
\* demand is at least x's
InsertDescending(h, sorted, x) ==
    LET before == {j \in DOMAIN sorted :
                      RatLE(h[x]["demand_mbps"], h[sorted[j]]["demand_mbps"])}
        k == Cardinality(before)
    IN  SubSeq(sorted, 1, k) \o <<x>> \o SubSeq(sorted, k + 1, Len(sorted))

\* faulty variant: the group left in input order
KeepInputOrder(h, entities, i, acc) == entities

\* sorted(entities, key=demand_mbps, reverse=True), line 80: a stable sort
RECURSIVE SortDescending(_, _, _, _)
SortDescending(h, entities, i, acc) ==
    IF i > Len(entities) THEN acc
    ELSE SortDescending(h, entities, i + 1, InsertDescending(h, acc, entities[i]))

\* faulty variant: the supply of every area taken together
GetSupplyAllAreas(cap, service_area) ==
    [value |-> SumOver(cap, DOMAIN cap), map |-> cap]

\* faulty variant: supply_by_service_area.pop(service_area, 0), the supply of
\* the area taken out of the map by the first group that reads it
GetSupplyOnce(cap, service_area) ==
    [value |-> IF service_area \in DOMAIN cap THEN cap[service_area] ELSE Zero,
     map |-> [a \in DOMAIN cap |-> IF a = service_area THEN Zero ELSE cap[a]]]

\* supply_by_service_area.get(service_area, 0), line 64: the value read and
\* the map as the lookup leaves it
GetSupply(cap, service_area) ==
    [value |-> IF service_area \in DOMAIN cap THEN cap[service_area] ELSE Zero,
     map |-> cap]

\* faulty variant: total_demand >= 0 for total_demand > 0
RatioDividesOnZero(demand) == RatLE(Zero, demand)

\* the condition under which line 73 divides by total_demand
RatioDivides(demand) == RatLT(Zero, demand)

\* the condition under which lines 85-89 divide by total_demand
ShareDivides(demand) == RatLT(Zero, demand)

\* faulty variant: the entity's demand, not scaled by the supply
FairShareUnscaled(demand_mbps, demand, supply) ==
    IF ShareDivides(demand) THEN demand_mbps ELSE Zero

\* faulty variant: the proportional share without the cap at the entity's demand
FairShareUncapped(demand_mbps, demand, supply) ==
    IF ShareDivides(demand)
    THEN Fl(RatMul(Fl(RatDiv(demand_mbps, demand)), supply))
    ELSE Zero

\* lines 84-91
FairShare(demand_mbps, demand, supply) ==
    IF ShareDivides(demand)
    THEN RatMin(demand_mbps, Fl(RatMul(Fl(RatDiv(demand_mbps, demand)), supply)))
    ELSE Zero

\* line 94
Clamp(share, remaining) == RatMin(share, remaining)

\* faulty variant: a new object with the fields the engine reads, and no other
CopyReadFields(h, ref) ==
    [heap |-> Append(h, [k \in {"entity_id", "service_area", "epoch",
                                "forecast_id", "demand_mbps"} |-> h[ref][k]]),
     ref |-> Len(h) + 1]

\* faulty variant: allocation = entity, the same object
AliasEntity(h, ref) == [heap |-> h, ref |-> ref]

\* entity.copy(), line 98: a new object with the same items
CopyEntity(h, ref) == [heap |-> Append(h, h[ref]), ref |-> Len(h) + 1]

\* faulty variant: the ratio taken on the allocation as stored, rounded to 2 decimals
SatisfactionOfRounded(alloc, demand_mbps) ==
    IF RatLT(Zero, demand_mbps)
    THEN Fl(Round1(Fl(RatMul(Fl(RatDiv(Round2(alloc), demand_mbps)), Hundred))))
    ELSE Hundred

\* faulty variant: the test of line 102 made on the allocation
SatisfactionOnAllocated(alloc, demand_mbps) ==
    IF RatLT(Zero, alloc)
    THEN Fl(Round1(Fl(RatMul(Fl(RatDiv(alloc, demand_mbps)), Hundred))))
    ELSE Hundred

\* lines 100-104
Satisfaction(alloc, demand_mbps) ==
    IF RatLT(Zero, demand_mbps)
    THEN Fl(Round1(Fl(RatMul(Fl(RatDiv(alloc, demand_mbps)), Hundred))))
    ELSE Hundred

----------------------------------------------------------------------------
(* summarize_allocations, lines 184-233, on a list of record values *)

\* sum(a[field] for a in recs) over the first n records, added from the left
RECURSIVE SumField(_, _, _)
SumField(recs, field, n) ==
    IF n = 0 THEN Zero
    ELSE Fl(RatAdd(SumField(recs, field, n - 1), recs[n][field]))

\* faulty variant: one per record
CountRecords(area_allocations) == Len(area_allocations)

\* lines 206-207: len(set(a["entity_id"] for a in area_allocations))
UniqueEntities(area_allocations) ==
    Cardinality({a["entity_id"] : a \in Range(area_allocations)})

\* faulty variant: the satisfaction summed over the records, divided by the number
\* of entities
AvgOverEntities(area_allocations) ==
    IF Len(area_allocations) > 0
    THEN Fl(RatDiv(SumField(area_allocations, "satisfaction_pct",
                            Len(area_allocations)),
                   Rat(UniqueEntities(area_allocations), 1)))
    ELSE Zero

\* lines 212-219
AvgSatisfaction(area_allocations) ==
    IF Len(area_allocations) > 0
    THEN Fl(RatDiv(SumField(area_allocations, "satisfaction_pct",
                            Len(area_allocations)),
                   Rat(Len(area_allocations), 1)))
    ELSE Zero

\* the condition under which line 226 divides by total_demand
PctDivides(demand) == RatLT(Zero, demand)

\* lines 205-231 for the records of one experiment and one service area
SummaryEntry(area_allocations) ==
    LET demand == SumField(area_allocations, "demand_mbps", Len(area_allocations))
        alloc == SumField(area_allocations, "allocated_mbps", Len(area_allocations))
        avg_satisfaction == AvgSatisfaction(area_allocations)
    IN  [entity_count |-> UniqueEntities(area_allocations),
         total_demand_mbps |-> Fl(Round2(demand)),
         total_allocated_mbps |-> Fl(Round2(alloc)),
         allocation_pct |->
             IF PctDivides(demand)
             THEN Fl(Round1(Fl(RatMul(Fl(RatDiv(alloc, demand)), Hundred))))
             ELSE Hundred,
         avg_satisfaction_pct |-> Fl(Round1(avg_satisfaction))]

summarize_allocations(recs) ==
    [exp \in {a["experiment"] : a \in Range(recs)} |->
        LET exp_allocations == SelectSeq(recs, LAMBDA a : a["experiment"] = exp)
        IN  [service_area \in {a["service_area"] : a \in Range(exp_allocations)} |->
                SummaryEntry(SelectSeq(exp_allocations,
                                       LAMBDA a : a["service_area"] = service_area))]]

----------------------------------------------------------------------------
(* generate_allocations, lines 111-181, and allocate_capacity, lines 40-108 *)

Init ==
    /\ files \in DataDirs
    /\ mantissa_bits = 0
    /\ pc = "load"
    /\ raised = "none"
    /\ heap = <<>>
    /\ supply_data = <<>>
    /\ demand_data = <<>>
    /\ scenarios = experiments
    /\ exp_i = 1
    /\ supply_by_service_area = <<>>
    /\ demand_by_area_epoch = <<>>
    /\ group_i = 1
    /\ total_supply = Zero
    /\ total_demand = Zero
    /\ allocation_ratio = Zero
    /\ remaining_supply = Zero
    /\ sorted_entities = <<>>
    /\ ent_i = 1
    /\ fair_share = Zero
    /\ allocated = Zero
    /\ allocations = <<>>
    /\ all_allocations = <<>>
    /\ summary = <<>>

\* the locals of allocate_capacity
locals == <<demand_by_area_epoch, group_i, total_supply, total_demand,
            allocation_ratio, remaining_supply, sorted_entities, ent_i,
            fair_share, allocated, allocations>>

\* lines 128-130: load_json_file raises when the file is absent; json.load
\* builds a new object for every record
LoadInputs ==
    /\ pc = "load"
    /\ IF "supply.json" \notin DOMAIN files
       THEN /\ raised' = "FileNotFoundError"
            /\ pc' = "failed"
            /\ UNCHANGED <<supply_data, heap, demand_data>>
       ELSE IF "demand.json" \notin DOMAIN files
       THEN /\ supply_data' = files["supply.json"]
            /\ raised' = "FileNotFoundError"
            /\ pc' = "failed"
            /\ UNCHANGED <<heap, demand_data>>
       ELSE /\ supply_data' = files["supply.json"]
            /\ heap' = files["demand.json"]
            /\ demand_data' = [i \in DOMAIN files["demand.json"] |-> i]
            /\ pc' = "aggregate"
            /\ UNCHANGED raised
    /\ UNCHANGED <<mantissa_bits, scenarios, files, exp_i, supply_by_service_area, all_allocations, summary>>
    /\ UNCHANGED locals

\* lines 151-153
AggregateSupply ==
    /\ pc = "aggregate"
    /\ supply_by_service_area' =
          aggregate_supply_by_service_area(supply_data, scenarios[exp_i].projection)
    /\ pc' = "group"
    /\ UNCHANGED <<mantissa_bits, scenarios, files, raised, heap, supply_data, demand_data, exp_i,
                   all_allocations, summary>>
    /\ UNCHANGED locals

\* faulty variant: one result list shared by all the calls
SharedList == allocations

\* allocations = [], line 59
NewList == <<>>

\* the call of line 156 and lines 53-59, in a new frame
GroupDemand ==
    /\ pc = "group"
    /\ demand_by_area_epoch' =
          GroupFrom(heap, demand_data, scenarios[exp_i].forecast, 1, <<>>)
    /\ allocations' = NewList
    /\ group_i' = 1
    /\ total_supply' = Zero
    /\ total_demand' = Zero
    /\ allocation_ratio' = Zero
    /\ remaining_supply' = Zero
    /\ sorted_entities' = <<>>
    /\ ent_i' = 1
    /\ fair_share' = Zero
    /\ allocated' = Zero
    /\ pc' = "groups"
    /\ UNCHANGED <<mantissa_bits, scenarios, files, raised, heap, supply_data, demand_data, exp_i,
                   supply_by_service_area, all_allocations, summary>>

\* lines 62-80: the head of the loop over the groups
BeginGroup ==
    /\ pc = "groups"
    /\ group_i <= Len(demand_by_area_epoch)
    /\ LET g == demand_by_area_epoch[group_i]
           look == GetSupply(supply_by_service_area, g.key[1])
           demand == SumDemand(heap, g.entities, Len(g.entities))
       IN  /\ total_supply' = look.value
           /\ supply_by_service_area' = look.map
           /\ total_demand' = demand
           /\ IF RatioDivides(demand) /\ demand = Zero
              THEN /\ raised' = "ZeroDivisionError"
                   /\ pc' = "failed"
                   /\ UNCHANGED <<allocation_ratio, remaining_supply,
                                  sorted_entities, ent_i>>
              ELSE /\ allocation_ratio' =
                         IF RatioDivides(demand)
                         THEN RatMin(One, Fl(RatDiv(look.value, demand)))
                         ELSE Zero
                   /\ remaining_supply' = look.value
                   /\ sorted_entities' = SortDescending(heap, g.entities, 1, <<>>)
                   /\ ent_i' = 1
                   /\ pc' = "entities"
                   /\ UNCHANGED raised
    /\ UNCHANGED <<mantissa_bits, scenarios, files, heap, supply_data, demand_data, exp_i,
                   demand_by_area_epoch, group_i, fair_share, allocated,
                   allocations, all_allocations, summary>>

\* lines 82-106: one turn of the loop over the sorted entities
AllocateEntity ==
    /\ pc = "entities"
    /\ ent_i <= Len(sorted_entities)
    /\ LET entity == sorted_entities[ent_i]
           demand_mbps == heap[entity]["demand_mbps"]
           share == FairShare(demand_mbps, total_demand, total_supply)
           alloc == Clamp(share, remaining_supply)
           copy == CopyEntity(heap, entity)
           last == ent_i = Len(sorted_entities)
       IN  IF ShareDivides(total_demand) /\ total_demand = Zero
           THEN /\ raised' = "ZeroDivisionError"
                /\ pc' = "failed"
                /\ UNCHANGED <<heap, group_i, remaining_supply, ent_i,
                               fair_share, allocated, allocations>>
           ELSE /\ fair_share' = share
                /\ allocated' = alloc
                /\ remaining_supply' = Fl(RatSub(remaining_supply, alloc))
                /\ heap' = [copy.heap EXCEPT ![copy.ref] =
                              SetItem(SetItem(@, "allocated_mbps", Fl(Round2(alloc))),
                                      "satisfaction_pct",
                                      Satisfaction(alloc, demand_mbps))]
                /\ allocations' = Append(allocations, copy.ref)
                /\ ent_i' = ent_i + 1
                /\ group_i' = IF last THEN group_i + 1 ELSE group_i
                /\ pc' = IF last THEN "groups" ELSE "entities"
                /\ UNCHANGED raised
    /\ UNCHANGED <<mantissa_bits, scenarios, files, supply_data, demand_data, exp_i,
                   supply_by_service_area, demand_by_area_epoch, total_supply,
                   total_demand, allocation_ratio, sorted_entities,
                   all_allocations, summary>>

\* line 108, back to line 156
ReturnAllocations ==
    /\ pc = "groups"
    /\ group_i > Len(demand_by_area_epoch)
    /\ pc' = "tag"
    /\ UNCHANGED <<mantissa_bits, scenarios, files, raised, heap, supply_data, demand_data, exp_i,
                   supply_by_service_area, all_allocations, summary>>
    /\ UNCHANGED locals

\* allocation["experiment"] = name for every allocation of the list
TagAll(h, refs, name) ==
    [i \in DOMAIN h |->
        IF i \in Range(refs) THEN SetItem(h[i], "experiment", name) ELSE h[i]]

\* lines 161-162
TagExperiment ==
    /\ pc = "tag"
    /\ heap' = TagAll(heap, allocations, scenarios[exp_i].name)
    /\ pc' = "save"
    /\ UNCHANGED <<mantissa_bits, scenarios, files, raised, supply_data, demand_data, exp_i,
                   supply_by_service_area, all_allocations, summary>>
    /\ UNCHANGED locals

\* faulty variant: the new records put in front
ExtendFront(list, items) == items \o list

\* all_allocations.extend(experiment_allocations), line 170
Extend(list, items) == list \o items

\* lines 165-170
SaveExperiment ==
    /\ pc = "save"
    /\ files' = SetItem(files,
                        "allocation_" \o scenarios[exp_i].name \o ".json",
                        Deref(heap, allocations))
    /\ all_allocations' = Extend(all_allocations, allocations)
    /\ exp_i' = exp_i + 1
    /\ pc' = IF exp_i = Len(scenarios) THEN "save_all" ELSE "aggregate"
    /\ UNCHANGED <<mantissa_bits, scenarios, raised, heap, supply_data, demand_data,
                   supply_by_service_area, summary>>
    /\ UNCHANGED locals

\* lines 173-175
SaveCombined ==
    /\ pc = "save_all"
    /\ files' = SetItem(files, "allocations.json", Deref(heap, all_allocations))
    /\ pc' = "summarize"
    /\ UNCHANGED <<mantissa_bits, scenarios, raised, heap, supply_data, demand_data, exp_i,
                   supply_by_service_area, all_allocations, summary>>
    /\ UNCHANGED locals

\* line 226 divides by a total_demand of zero for some pair of the list
SummaryDividesByZero(recs) ==
    \E a \in Range(recs) :
        LET pair == SelectSeq(recs,
                              LAMBDA b :
                                 /\ b["experiment"] = a["experiment"]
                                 /\ b["service_area"] = a["service_area"])
            demand == SumField(pair, "demand_mbps", Len(pair))
        IN  PctDivides(demand) /\ demand = Zero

\* lines 178-181
Summarize ==
    /\ pc = "summarize"
    /\ IF SummaryDividesByZero(Deref(heap, all_allocations))
       THEN /\ raised' = "ZeroDivisionError"
            /\ pc' = "failed"
            /\ UNCHANGED <<files, summary>>
       ELSE /\ summary' = summarize_allocations(Deref(heap, all_allocations))
            /\ files' = SetItem(files, "allocation_summary.json", summary')
            /\ pc' = "done"
            /\ UNCHANGED raised
    /\ UNCHANGED <<mantissa_bits, scenarios, heap, supply_data, demand_data, exp_i,
                   supply_by_service_area, all_allocations>>
    /\ UNCHANGED locals

Next ==
    \/ LoadInputs
    \/ AggregateSupply
    \/ GroupDemand
    \/ BeginGroup
    \/ AllocateEntity
    \/ ReturnAllocations
    \/ TagExperiment
    \/ SaveExperiment
    \/ SaveCombined
    \/ Summarize

Spec == Init /\ [][Next]_vars

MaxGroupLen == 3   \* longest demand.json of the runs on one forecast

\* the records of one forecast: a group of two (80 and 20), a second record
\* of e1 in that group (a duplicate entity, and a tie in demand with e2), and
\* a record of another area
GroupRecords ==
    { Demand("e1", "A1", 0, "base_forecast", Mbps(80)),
      Demand("e2", "A1", 0, "base_forecast", Mbps(20)),
      Demand("e1", "A1", 0, "base_forecast", Mbps(20)),
      Demand("e2", "A2", 0, "base_forecast", Mbps(20)) }

\* the same program started on longer demand lists of one forecast and on at
\* most one supply record
InitGroups ==
    /\ files \in
          { [f \in {"supply.json", "demand.json"} |->
                IF f = "supply.json" THEN sl ELSE dl] :
              sl \in SeqsUpTo(SupplyRecords, 1),
              dl \in SeqsUpTo(GroupRecords, MaxGroupLen) }
    /\ mantissa_bits = 0
    /\ pc = "load"
    /\ raised = "none"
    /\ heap = <<>>
    /\ supply_data = <<>>
    /\ demand_data = <<>>
    /\ scenarios = experiments
    /\ exp_i = 1
    /\ supply_by_service_area = <<>>
    /\ all_allocations = <<>>
    /\ summary = <<>>
    /\ demand_by_area_epoch = <<>>
    /\ group_i = 1
    /\ total_supply = Zero
    /\ total_demand = Zero
    /\ allocation_ratio = Zero
    /\ remaining_supply = Zero
    /\ sorted_entities = <<>>
    /\ ent_i = 1
    /\ fair_share = Zero
    /\ allocated = Zero
    /\ allocations = <<>>

SpecGroups == InitGroups /\ [][Next]_vars

MaxScheduled == 2   \* longest demand.json of the runs on any schedule

\* records of both forecasts on one group
ScheduledRecords ==
    { Demand("e1", "A1", 0, "base_forecast", Mbps(80)),
      Demand("e2", "A1", 0, "base_forecast", Mbps(20)),
      Demand("e1", "A1", 0, "peak_forecast", Mbps(80)) }

\* the lists the loop of line 147 is run on: the declared scenarios in every
\* order, and each scenario twice in a row
Schedules ==
    {q \in [DOMAIN experiments -> Range(experiments)] :
        Range(q) = Range(experiments)}
    \cup {<<e, e>> : e \in Range(experiments)}

\* the same program with the loop of line 147 run on any of these lists
InitAnyOrder ==
    /\ files \in
          { [f \in {"supply.json", "demand.json"} |->
                IF f = "supply.json" THEN sl ELSE dl] :
              sl \in SeqsUpTo(SupplyRecords, 1),
              dl \in SeqsUpTo(ScheduledRecords, MaxScheduled) }
    /\ scenarios \in Schedules
    /\ mantissa_bits = 0
    /\ pc = "load"
    /\ raised = "none"
    /\ heap = <<>>
    /\ supply_data = <<>>
    /\ demand_data = <<>>
    /\ exp_i = 1
    /\ supply_by_service_area = <<>>
    /\ all_allocations = <<>>
    /\ summary = <<>>
    /\ demand_by_area_epoch = <<>>
    /\ group_i = 1
    /\ total_supply = Zero
    /\ total_demand = Zero
    /\ allocation_ratio = Zero
    /\ remaining_supply = Zero
    /\ sorted_entities = <<>>
    /\ ent_i = 1
    /\ fair_share = Zero
    /\ allocated = Zero
    /\ allocations = <<>>

SpecAnyOrder == InitAnyOrder /\ [][Next]_vars

MantissaBits == 8   \* significant bits of the floats of the runs in float arithmetic

\* the same program run in exact arithmetic and in float arithmetic, on
\* demands and supplies that are floats of that format (80, 20, 60)
InitFloat ==
    /\ mantissa_bits \in {0, MantissaBits}
    /\ files \in
          { [f \in {"supply.json", "demand.json"} |->
                IF f = "supply.json" THEN sl ELSE dl] :
              sl \in SeqsUpTo(SupplyRecords, 1),
              dl \in SeqsUpTo(GroupRecords, MaxGroupLen) }
    /\ scenarios = experiments
    /\ pc = "load"
    /\ raised = "none"
    /\ heap = <<>>
    /\ supply_data = <<>>
    /\ demand_data = <<>>
    /\ exp_i = 1
    /\ supply_by_service_area = <<>>
    /\ all_allocations = <<>>
    /\ summary = <<>>
    /\ demand_by_area_epoch = <<>>
    /\ group_i = 1
    /\ total_supply = Zero
    /\ total_demand = Zero
    /\ allocation_ratio = Zero
    /\ remaining_supply = Zero
    /\ sorted_entities = <<>>
    /\ ent_i = 1
    /\ fair_share = Zero
    /\ allocated = Zero
    /\ allocations = <<>>

SpecFloat == InitFloat /\ [][Next]_vars

----------------------------------------------------------------------------
(* generate_all_data.py: the five generators run one after the other on the *)
(* data directory public/data/mock.  The generators draw their values at   *)
(* random; here a generated file is any of a small set of contents.        *)

MaxAreas == 1   \* service areas of the grid
Hours == 1      \* epochs of a demand point

\* service_areas.json as generate_service_areas writes it: the areas of the
\* grid, by their service_area_id
ServiceAreas == SubSeq(<<"A1", "A2", "A3">>, 1, MaxAreas)

\* the coverage files of generate_all_beams
CoverageFiles ==
    {"coverage_USA-SAT.json", "coverage_NA-SAT.json", "coverage_EU-SAT.json",
     "coverage.json"}

SupplyLevels == {Mbps(60), Mbps(120)}
DemandLevels == {Mbps(80), Mbps(20)}

\* the contents generate_supply_data can give supply.json: for the baseline
\* projection, then for the optimized one, a record for each service area
GeneratedSupply(areas) ==
    LET n == Len(areas)
    IN  { [k \in 1..(2 * n) |->
              Supply("sat1", areas[((k - 1) % n) + 1],
                     IF k <= n THEN "baseline" ELSE "optimized", lv[k])] :
            lv \in [1..(2 * n) -> SupplyLevels] }

\* the contents generate_all_demand can give demand.json: for the base
\* forecast, then for the peak forecast, a demand point in one of the service
\* areas with a record for each hour
GeneratedDemand(areas) ==
    { [k \in 1..(2 * Hours) |->
          Demand(IF k <= Hours THEN "e1" ELSE "e2",
                 ar[IF k <= Hours THEN 1 ELSE 2],
                 (k - 1) % Hours,
                 IF k <= Hours THEN "base_forecast" ELSE "peak_forecast",
                 lv[k])] :
        ar \in [1..2 -> Range(areas)],
        lv \in [1..(2 * Hours) -> DemandLevels] }

\* the files a generator writes: one for each value of a field, and the
\* combined one
WriteSplit(dir, prefix, field, values, all) ==
    [f \in DOMAIN dir \cup {prefix \o "_" \o v \o ".json" : v \in values}
             \cup {prefix \o ".json"} |->
        IF f = prefix \o ".json" THEN all
        ELSE IF \E v \in values : f = prefix \o "_" \o v \o ".json"
        THEN LET v == CHOOSE w \in values : f = prefix \o "_" \o w \o ".json"
             IN  SelectSeq(all, LAMBDA r : r[field] = v)
        ELSE dir[f]]

\* the run starts on an empty data directory
InitPipeline ==
    /\ files = <<>>
    /\ mantissa_bits = 0
    /\ scenarios = experiments
    /\ pc = "beams"
    /\ raised = "none"
    /\ heap = <<>>
    /\ supply_data = <<>>
    /\ demand_data = <<>>
    /\ exp_i = 1
    /\ supply_by_service_area = <<>>
    /\ all_allocations = <<>>
    /\ summary = <<>>
    /\ demand_by_area_epoch = <<>>
    /\ group_i = 1
    /\ total_supply = Zero
    /\ total_demand = Zero
    /\ allocation_ratio = Zero
    /\ remaining_supply = Zero
    /\ sorted_entities = <<>>
    /\ ent_i = 1
    /\ fair_share = Zero
    /\ allocated = Zero
    /\ allocations = <<>>

\* generate_all_data.py, lines 11-15
GenerateBeams ==
    /\ pc = "beams"
    /\ files' = [f \in DOMAIN files \cup CoverageFiles |->
                    IF f \in CoverageFiles THEN <<>> ELSE files[f]]
    /\ pc' = "supply"
    /\ UNCHANGED <<mantissa_bits, scenarios, raised, heap, supply_data,
                   demand_data, exp_i, supply_by_service_area,
                   all_allocations, summary>>
    /\ UNCHANGED locals

\* generate_all_data.py, lines 17-21, and generate_supply_data: without
\* service_areas.json the error is printed and nothing is written
GenerateSupply ==
    /\ pc = "supply"
    /\ IF "service_areas.json" \notin DOMAIN files
       THEN UNCHANGED files
       ELSE \E supply \in GeneratedSupply(files["service_areas.json"]) :
               files' = WriteSplit(files, "supply", "projection_id",
                                   {"baseline", "optimized"}, supply)
    /\ pc' = "areas"
    /\ UNCHANGED <<mantissa_bits, scenarios, raised, heap, supply_data,
                   demand_data, exp_i, supply_by_service_area,
                   all_allocations, summary>>
    /\ UNCHANGED locals

\* generate_all_data.py, lines 23-27, and generate_service_areas
GenerateServiceAreas ==
    /\ pc = "areas"
    /\ files' = SetItem(files, "service_areas.json", ServiceAreas)
    /\ pc' = "demand"
    /\ UNCHANGED <<mantissa_bits, scenarios, raised, heap, supply_data,
                   demand_data, exp_i, supply_by_service_area,
                   all_allocations, summary>>
    /\ UNCHANGED locals

\* generate_all_data.py, lines 29-33, and generate_all_demand: without
\* service_areas.json, or with an empty one, nothing is written
GenerateDemand ==
    /\ pc = "demand"
    /\ LET service_areas == IF "service_areas.json" \in DOMAIN files
                            THEN files["service_areas.json"]
                            ELSE <<>>
       IN  IF service_areas = <<>>
           THEN UNCHANGED files
           ELSE \E demand \in GeneratedDemand(service_areas) :
                   files' = WriteSplit(files, "demand", "forecast_id",
                                       {"base_forecast", "peak_forecast"},
                                       demand)
    /\ pc' = "load"
    /\ UNCHANGED <<mantissa_bits, scenarios, raised, heap, supply_data,
                   demand_data, exp_i, supply_by_service_area,
                   all_allocations, summary>>
    /\ UNCHANGED locals

\* the script is run again on the directory that a failed run has left
RunAgain ==
    /\ pc = "failed"
    /\ pc' = "beams"
    /\ raised' = "none"
    /\ heap' = <<>>
    /\ supply_data' = <<>>
    /\ demand_data' = <<>>
    /\ exp_i' = 1
    /\ supply_by_service_area' = <<>>
    /\ all_allocations' = <<>>
    /\ summary' = <<>>
    /\ demand_by_area_epoch' = <<>>
    /\ group_i' = 1
    /\ total_supply' = Zero
    /\ total_demand' = Zero
    /\ allocation_ratio' = Zero
    /\ remaining_supply' = Zero
    /\ sorted_entities' = <<>>
    /\ ent_i' = 1
    /\ fair_share' = Zero
    /\ allocated' = Zero
    /\ allocations' = <<>>
    /\ UNCHANGED <<mantissa_bits, scenarios, files>>

\* lines 35-40 of generate_all_data.py are generate_allocations, the
\* actions of Next
NextPipeline ==
    \/ GenerateBeams
    \/ GenerateSupply
    \/ GenerateServiceAreas
    \/ GenerateDemand
    \/ RunAgain
    \/ Next

SpecPipeline == InitPipeline /\ [][NextPipeline]_vars

----------------------------------------------------------------------------
(* Properties *)

\* the allocation list in hand is the one of experiment exp_i, worked out
\* against the capacity map in hand
InExperiment == pc \in {"groups", "entities", "tag", "save"}

\* the i-th record of the allocation list
Allocation(i) == heap[allocations[i]]

KeyOf(r) == <<r["service_area"], r["epoch"]>>

\* the supply of an area in the capacity map, a missing area counting as zero
CapacityOf(area) ==
    IF area \in DOMAIN supply_by_service_area
    THEN supply_by_service_area[area]
    ELSE Zero

\* the input demand records of a group under the forecast of the experiment
GroupInputs(key) ==
    {j \in DOMAIN demand_data :
        /\ heap[demand_data[j]]["forecast_id"] = scenarios[exp_i].forecast
        /\ KeyOf(heap[demand_data[j]]) = key}

\* the total demand of a group, from the input
GroupDemandOf(key) ==
    SumOver([j \in DOMAIN demand_data |-> heap[demand_data[j]]["demand_mbps"]],
            GroupInputs(key))

\* the allocation records of a group
GroupAllocations(key) == {i \in DOMAIN allocations : KeyOf(Allocation(i)) = key}

\* the sum of allocated_mbps over a group
GroupAllocated(key) ==
    SumOver([i \in DOMAIN allocations |-> Allocation(i)["allocated_mbps"]],
            GroupAllocations(key))

NoArithmeticError == raised # "ZeroDivisionError"

\* C1: every allocation record has 0 <= allocated_mbps <= demand_mbps.
\* Violated: allocated_mbps is rounded to two decimals after the cap at the
\* demand, and a demand of 0.007 is allocated 0.01.
C1_AllocatedWithinDemand ==
    \A i \in DOMAIN allocations :
        /\ RatLE(Zero, Allocation(i)["allocated_mbps"])
        /\ RatLE(Allocation(i)["allocated_mbps"], Allocation(i)["demand_mbps"])

\* C2: the allocated_mbps of a (service_area, epoch) group sum to at most the
\* supply of the area in the capacity map (a missing area has none), up to
\* the half hundredth by which round(x, 2) can raise each record.
C2_GroupWithinSupply ==
    InExperiment =>
        \A i \in DOMAIN allocations :
            LET key == KeyOf(Allocation(i))
            IN  RatLE(GroupAllocated(key),
                      RatAdd(CapacityOf(key[1]),
                             Rat(Cardinality(GroupAllocations(key)), 200)))

\* a group of two that is short of supply and uses all of it
C2_Witness ==
    /\ pc = "tag"
    /\ \E i \in DOMAIN allocations :
          LET key == KeyOf(Allocation(i))
          IN  /\ Cardinality(GroupAllocations(key)) = 2
              /\ RatLT(CapacityOf(key[1]), GroupDemandOf(key))
              /\ RatLT(Zero, CapacityOf(key[1]))
              /\ GroupAllocated(key) = CapacityOf(key[1])

\* C3: in a group whose total demand is at most the supply of its area,
\* every entity is satisfied at 100 percent, its allocated_mbps being its
\* demand to two decimals.
C3_FullySatisfied ==
    InExperiment =>
        \A i \in DOMAIN allocations :
            LET r == Allocation(i)
            IN  RatLE(GroupDemandOf(KeyOf(r)), CapacityOf(r["service_area"])) =>
                    /\ r["satisfaction_pct"] = Hundred
                    /\ r["allocated_mbps"] = Round2(r["demand_mbps"])

\* two entities with a demand, in a group the supply covers
C3_Witness ==
    /\ pc = "groups"
    /\ \E i \in DOMAIN allocations :
          LET key == KeyOf(Allocation(i))
          IN  /\ i = Len(allocations)
              /\ Cardinality(GroupAllocations(key)) = 2
              /\ \A j \in GroupAllocations(key) :
                    RatLT(Zero, Allocation(j)["demand_mbps"])
              /\ RatLE(GroupDemandOf(key), CapacityOf(key[1]))

\* C4: a group whose total demand is 0 raises no division by zero, and each
\* of its entities gets allocated_mbps 0 and satisfaction_pct 100, whatever
\* the supply.
C4_ZeroDemandGroup ==
    /\ NoArithmeticError
    /\ InExperiment =>
          \A i \in DOMAIN allocations :
              LET r == Allocation(i)
              IN  GroupDemandOf(KeyOf(r)) = Zero =>
                      /\ r["allocated_mbps"] = Zero
                      /\ r["satisfaction_pct"] = Hundred

\* a group without demand in an area that has supply
C4_Witness ==
    /\ pc = "tag"
    /\ \E i \in DOMAIN allocations :
          /\ GroupDemandOf(KeyOf(Allocation(i))) = Zero
          /\ RatLT(Zero, CapacityOf(Allocation(i)["service_area"]))

\* C5: in an area whose supply is 0, or that has no key in the capacity map,
\* every entity with a demand gets allocated_mbps 0 and satisfaction_pct 0,
\* and nothing is raised.
C5_ZeroSupply ==
    /\ NoArithmeticError
    /\ InExperiment =>
          \A i \in DOMAIN allocations :
              LET r == Allocation(i)
              IN  (/\ CapacityOf(r["service_area"]) = Zero
                   /\ RatLT(Zero, r["demand_mbps"])) =>
                      /\ r["allocated_mbps"] = Zero
                      /\ r["satisfaction_pct"] = Zero

\* one call serves an area the map has no key for and an area whose supply
\* is 0, each with a demand
C5_Witness ==
    /\ pc = "tag"
    /\ \E i, j \in DOMAIN allocations :
          /\ Allocation(i)["service_area"] \notin DOMAIN supply_by_service_area
          /\ RatLT(Zero, Allocation(i)["demand_mbps"])
          /\ Allocation(j)["service_area"] \in DOMAIN supply_by_service_area
          /\ supply_by_service_area[Allocation(j)["service_area"]] = Zero
          /\ RatLT(Zero, Allocation(j)["demand_mbps"])

\* the records of a saved allocation file, without the tag of the scenario loop
StripExperiment(recs) == [i \in DOMAIN recs |-> DelItem(recs[i], "experiment")]

AllocationFile(j) == "allocation_" \o scenarios[j].name \o ".json"

\* experiment j ran before the experiment in hand, on the same forecast_id
\* and on a capacity map equal to the one in hand
SameCallAs(j) ==
    /\ j < exp_i
    /\ scenarios[j].forecast = scenarios[exp_i].forecast
    /\ aggregate_supply_by_service_area(supply_data, scenarios[j].projection)
          = supply_by_service_area

\* C6: a second call of allocate_capacity on the same demand list, an equal
\* capacity map and the same forecast_id returns the records the first call
\* returned, in the same order: what the first run and the tagging of its
\* result left behind changes nothing.
C6_SecondRunIdentical ==
    pc = "tag" =>
        \A j \in DOMAIN scenarios :
            SameCallAs(j) =>
                Deref(heap, allocations) = StripExperiment(files[AllocationFile(j)])

\* the second of two such calls returns two records, one with an allocation
C6_Witness ==
    /\ pc = "tag"
    /\ \E j \in DOMAIN scenarios : SameCallAs(j)
    /\ Len(allocations) = 2
    /\ \E i \in DOMAIN allocations : RatLT(Zero, Allocation(i)["allocated_mbps"])

\* the records of the combined list of one experiment and one service area
PairRecords(exp, area) ==
    {i \in DOMAIN all_allocations :
        /\ heap[all_allocations[i]]["experiment"] = exp
        /\ heap[all_allocations[i]]["service_area"] = area}

\* C7: the summary has an entry for every (experiment, service_area) pair of
\* the combined list, and its entity_count is the number of distinct
\* entity_id values among the records of the pair, epochs taken together.
C7_EntityCountDistinct ==
    pc = "done" =>
        /\ DOMAIN summary = {heap[r]["experiment"] : r \in Range(all_allocations)}
        /\ \A exp \in DOMAIN summary :
              /\ DOMAIN summary[exp] =
                    {heap[r]["service_area"] :
                        r \in {x \in Range(all_allocations) :
                                  heap[x]["experiment"] = exp}}
              /\ \A area \in DOMAIN summary[exp] :
                    summary[exp][area].entity_count =
                        Cardinality({heap[all_allocations[i]]["entity_id"] :
                                        i \in PairRecords(exp, area)})

\* one entity with a record in each of two epochs is counted once
C7_Witness ==
    /\ pc = "done"
    /\ \E exp \in DOMAIN summary : \E area \in DOMAIN summary[exp] :
          /\ summary[exp][area].entity_count = 1
          /\ \E i, j \in PairRecords(exp, area) :
                heap[all_allocations[i]]["epoch"] # heap[all_allocations[j]]["epoch"]

E1 == Demand("e1", "A1", 0, "base_forecast", Mbps(80))
E2 == Demand("e2", "A1", 0, "base_forecast", Mbps(20))

\* a demand record with the fields of a tagged allocation record
Allocated(d, mbps, pct, exp) ==
    SetItem(SetItem(SetItem(d, "allocated_mbps", mbps), "satisfaction_pct", pct),
            "experiment", exp)

\* demand.json holds e1 (80) and e2 (20) of area A1, epoch 0, in either
\* order, and the baseline supply records of A1 add up to 60
ExampleInput ==
    /\ "demand.json" \in DOMAIN files
    /\ "supply.json" \in DOMAIN files
    /\ Len(files["demand.json"]) = 2
    /\ Range(files["demand.json"]) = {E1, E2}
    /\ SumOver([i \in DOMAIN files["supply.json"] |->
                   files["supply.json"][i].supply_mbps],
               {i \in DOMAIN files["supply.json"] :
                   /\ files["supply.json"][i].projection_id = "baseline"
                   /\ files["supply.json"][i].service_area = "A1"}) = Mbps(60)

\* C8: on the example the baseline scenario returns e1 first, with 48 Mbps
\* and 60 percent, then e2 with 12 Mbps and 60 percent, and the summary of
\* (baseline, A1) is 2 entities, demand 100, allocated 60, 60 percent
\* allocated, 60 percent average satisfaction.
C8_Example ==
    (pc = "done" /\ ExampleInput) =>
        /\ files["allocation_baseline.json"] =
              << Allocated(E1, Mbps(48), Rat(60, 1), "baseline"),
                 Allocated(E2, Mbps(12), Rat(60, 1), "baseline") >>
        /\ summary["baseline"]["A1"] =
              [entity_count |-> 2,
               total_demand_mbps |-> Mbps(100),
               total_allocated_mbps |-> Mbps(60),
               allocation_pct |-> Rat(60, 1),
               avg_satisfaction_pct |-> Rat(60, 1)]

\* the example run to its end, e2 coming first in the input
C8_Witness ==
    /\ pc = "done"
    /\ ExampleInput
    /\ files["demand.json"][1] = E2

\* the supply records of the projection of the experiment in hand, on area a
Matching(a) ==
    {i \in DOMAIN supply_data :
        /\ supply_data[i].projection_id = scenarios[exp_i].projection
        /\ supply_data[i].service_area = a}

\* C9: the capacity map has a key for exactly the areas with a supply record
\* of the requested projection, its value the sum of the supply_mbps of those
\* records; no record, or none of the projection, gives the empty map, and
\* nothing is raised.
C9_AggregateByProjection ==
    pc = "group" =>
        /\ raised = "none"
        /\ DOMAIN supply_by_service_area =
              {a \in {supply_data[i].service_area : i \in DOMAIN supply_data} :
                  Matching(a) # {}}
        /\ \A a \in DOMAIN supply_by_service_area :
              supply_by_service_area[a] =
                  SumOver([i \in DOMAIN supply_data |-> supply_data[i].supply_mbps],
                          Matching(a))

\* two records of the projection on one area have been added up
C9_Witness ==
    /\ pc = "group"
    /\ \E a \in DOMAIN supply_by_service_area :
          /\ Cardinality(Matching(a)) = 2
          /\ supply_by_service_area[a] = Mbps(120)

\* C10: the input demand records stay as loaded through allocate_capacity
\* and the tagging loop (no field added, none altered), allocate_capacity
\* leaves the capacity map as the aggregator built it (a lookup of a
\* missing area adds no key), and no allocation record is an input record.
C10_InputsUntouched ==
    /\ pc \notin {"load", "failed"} =>
          Deref(heap, demand_data) = files["demand.json"]
    /\ InExperiment =>
          supply_by_service_area =
              aggregate_supply_by_service_area(supply_data,
                                               scenarios[exp_i].projection)
    /\ Range(allocations) \cap Range(demand_data) = {}
    /\ Range(all_allocations) \cap Range(demand_data) = {}

\* a tagged allocation record of an area that the capacity map has no key for
C10_Witness ==
    /\ pc = "save"
    /\ \E i \in DOMAIN allocations :
          /\ Allocation(i)["experiment"] = scenarios[exp_i].name
          /\ Allocation(i)["service_area"] \notin DOMAIN supply_by_service_area

\* an allocation record without the two fields allocate_capacity adds
WithoutAllocation(r) == DelItem(DelItem(r, "allocated_mbps"), "satisfaction_pct")

\* the positions of demand_data that hold a record of the forecast in hand
Selected ==
    {j \in DOMAIN demand_data :
        heap[demand_data[j]]["forecast_id"] = scenarios[exp_i].forecast}

\* the ways to name, for each allocation record, the input record it was
\* made from: one-to-one, onto the selected records, equal on every input field
Origins ==
    {p \in [DOMAIN allocations -> Selected] :
        /\ \A j \in Selected : \E i \in DOMAIN allocations : p[i] = j
        /\ \A i, k \in DOMAIN allocations : p[i] = p[k] => i = k
        /\ \A i \in DOMAIN allocations :
              WithoutAllocation(Allocation(i)) = heap[demand_data[p[i]]]}

\* the first position of the input at which a record of the group stands
FirstPosition(key) ==
    CHOOSE j \in GroupInputs(key) : \A m \in GroupInputs(key) : j <= m

\* C11: in the list allocate_capacity returns, the records of a group are
\* contiguous, the groups come in the order in which their key first appears
\* in the demand input, and inside a group the records are in non-increasing
\* demand_mbps order, records of equal demand in their input order.
C11_ResultOrder ==
    pc = "tag" =>
        \E p \in Origins :
            \A i, k \in DOMAIN allocations :
                i < k =>
                    LET a == Allocation(i)
                        b == Allocation(k)
                    IN  IF KeyOf(a) = KeyOf(b)
                        THEN /\ \A m \in i..k : KeyOf(Allocation(m)) = KeyOf(a)
                             /\ RatLE(b["demand_mbps"], a["demand_mbps"])
                             /\ a["demand_mbps"] = b["demand_mbps"] => p[i] < p[k]
                        ELSE FirstPosition(KeyOf(a)) < FirstPosition(KeyOf(b))

\* the input is e1 (20) of A1, e2 of A2, e2 (20) of A1: the two records of A1
\* tie, are returned side by side before the record of A2, e1 first
C11_Witness ==
    /\ pc = "tag"
    /\ Len(allocations) = 3
    /\ heap[demand_data[2]]["service_area"] = "A2"
    /\ Allocation(1)["entity_id"] = "e1"
    /\ Allocation(2)["entity_id"] = "e2"
    /\ Allocation(1)["demand_mbps"] = Allocation(2)["demand_mbps"]
    /\ KeyOf(Allocation(1)) = KeyOf(Allocation(2))
    /\ Allocation(3)["service_area"] = "A2"

\* the supply records of the projection in hand add up to this for an area
ProjectionSupply(area) ==
    SumOver([i \in DOMAIN supply_data |-> supply_data[i].supply_mbps],
            Matching(area))

\* the share of a demand d in a group of total demand D on a supply S
ProportionalShare(d, D, S) ==
    IF RatLT(Zero, D) THEN RatMin(d, RatDiv(RatMul(d, S), D)) ELSE Zero

\* C12: the allocation list of a scenario has one record for each demand
\* record of the scenario's forecast and none of another forecast, the
\* allocation of each record is its share of the supply that the supply
\* records of the scenario's projection bring to its area, within the demand
\* that the records of the scenario's forecast put on its group, and every
\* record carries the scenario's name as experiment.
C12_ScenarioInputs ==
    pc = "save" =>
        /\ Len(allocations) = Cardinality(Selected)
        /\ \A i \in DOMAIN allocations :
              LET r == Allocation(i)
              IN  /\ r["experiment"] = scenarios[exp_i].name
                  /\ r["forecast_id"] = scenarios[exp_i].forecast
                  /\ r["allocated_mbps"] =
                        Round2(ProportionalShare(r["demand_mbps"],
                                                 GroupDemandOf(KeyOf(r)),
                                                 ProjectionSupply(r["service_area"])))

\* a scenario of the peak forecast with an allocation, run on an input that
\* also holds a record of the other forecast on the same group and supply
\* of the other projection on the same area
C12_Witness ==
    /\ pc = "save"
    /\ scenarios[exp_i].forecast = "peak_forecast"
    /\ \E i \in DOMAIN allocations :
          /\ RatLT(Zero, Allocation(i)["allocated_mbps"])
          /\ \E j \in DOMAIN demand_data :
                /\ j \notin Selected
                /\ KeyOf(heap[demand_data[j]]) = KeyOf(Allocation(i))
          /\ \E k \in DOMAIN supply_data :
                /\ supply_data[k].projection_id # scenarios[exp_i].projection
                /\ supply_data[k].service_area = Allocation(i)["service_area"]

\* the saved allocation lists of the scenarios already run, from the j-th
\* on, one after the other
RECURSIVE SavedFrom(_)
SavedFrom(j) ==
    IF j >= exp_i THEN <<>>
    ELSE files[AllocationFile(j)] \o SavedFrom(j + 1)

\* C13: the combined allocation list is the per-scenario lists one after the
\* other in declaration order (baseline, optimized, peak_demand,
\* peak_optimized), each as it was saved, and its length is the sum of their
\* lengths; so it is after each scenario, and so is allocations.json.
C13_CombinedIsConcatenation ==
    /\ pc \in {"aggregate", "save_all", "summarize", "done"} =>
          Deref(heap, all_allocations) = SavedFrom(1)
    /\ pc \in {"summarize", "done"} =>
          /\ files["allocations.json"] =
                files["allocation_baseline.json"]
                   \o files["allocation_optimized.json"]
                   \o files["allocation_peak_demand.json"]
                   \o files["allocation_peak_optimized.json"]
          /\ Len(files["allocations.json"]) =
                Len(files["allocation_baseline.json"])
                   + Len(files["allocation_optimized.json"])
                   + Len(files["allocation_peak_demand.json"])
                   + Len(files["allocation_peak_optimized.json"])

\* the combined list of a run with two records of the base forecast and none
\* of the peak forecast: two scenarios of two records, two of none
C13_Witness ==
    /\ pc = "done"
    /\ Len(files["allocation_baseline.json"]) = 2
    /\ Len(files["allocation_peak_demand.json"]) = 0
    /\ Len(files["allocations.json"]) = 4
    /\ files["allocations.json"][2]["experiment"] = "baseline"
    /\ files["allocations.json"][3]["experiment"] = "optimized"
    /\ files["allocations.json"][1] # files["allocations.json"][2]

InputFiles == {"supply.json", "demand.json"}

\* an input file is absent from data_dir, or holds an empty list
InputMissing ==
    \E f \in InputFiles : f \notin DOMAIN files \/ files[f] = <<>>

\* C14: when the supply or the demand input is absent or empty, the run ends
\* at the load with an error and writes no output file.
\* Violated: only an absent file raises (FileNotFoundError); on an empty list
\* the run goes on and writes empty allocation files and an empty summary.
C14_MissingInputFails ==
    InputMissing =>
        /\ pc # "load" => (pc = "failed" /\ raised # "none")
        /\ DOMAIN files \subseteq InputFiles

\* the sum of a field over the records of a pair of the combined list
PairSum(exp, area, field) ==
    SumOver([i \in DOMAIN all_allocations |-> heap[all_allocations[i]][field]],
            PairRecords(exp, area))

\* total_allocated/total_demand*100 of a pair, 100 for a total demand of 0
PairAllocationPct(exp, area) ==
    IF RatLT(Zero, PairSum(exp, area, "demand_mbps"))
    THEN RatMul(RatDiv(PairSum(exp, area, "allocated_mbps"),
                       PairSum(exp, area, "demand_mbps")), Hundred)
    ELSE Hundred

\* the arithmetic mean of satisfaction_pct over the records of a pair
PairMeanSatisfaction(exp, area) ==
    RatDiv(PairSum(exp, area, "satisfaction_pct"),
           Rat(Cardinality(PairRecords(exp, area)), 1))

\* C15, as stated: the four aggregates of every summary entry are the exact
\* sums, ratio and mean over the records of the pair.
\* Violated: the summarizer rounds them.
C15_SummaryExact ==
    pc = "done" =>
        \A exp \in DOMAIN summary : \A area \in DOMAIN summary[exp] :
            LET e == summary[exp][area]
            IN  /\ e.total_demand_mbps = PairSum(exp, area, "demand_mbps")
                /\ e.total_allocated_mbps = PairSum(exp, area, "allocated_mbps")
                /\ e.allocation_pct = PairAllocationPct(exp, area)
                /\ e.avg_satisfaction_pct = PairMeanSatisfaction(exp, area)

\* C15, amended: in every summary entry total_demand_mbps and
\* total_allocated_mbps are the sums of demand_mbps and allocated_mbps over
\* the records of the pair rounded to 2 decimals, allocation_pct is
\* total_allocated/total_demand*100 rounded to 1 decimal (100 for a total
\* demand of 0), avg_satisfaction_pct is the mean of satisfaction_pct rounded
\* to 1 decimal, and the summarizer raises no division by zero.
C15_SummaryRounded ==
    /\ NoArithmeticError
    /\ pc = "done" =>
          \A exp \in DOMAIN summary : \A area \in DOMAIN summary[exp] :
              LET e == summary[exp][area]
              IN  /\ e.total_demand_mbps =
                        Round2(PairSum(exp, area, "demand_mbps"))
                  /\ e.total_allocated_mbps =
                        Round2(PairSum(exp, area, "allocated_mbps"))
                  /\ e.allocation_pct = Round1(PairAllocationPct(exp, area))
                  /\ e.avg_satisfaction_pct =
                        Round1(PairMeanSatisfaction(exp, area))

\* a summary entry of two records of one entity whose ratio of allocation to
\* demand has more than one decimal
C15_Witness ==
    /\ pc = "done"
    /\ \E exp \in DOMAIN summary : \E area \in DOMAIN summary[exp] :
          /\ Cardinality(PairRecords(exp, area)) = 2
          /\ summary[exp][area].entity_count = 1
          /\ summary[exp][area].allocation_pct # PairAllocationPct(exp, area)

\* the positions of demand.json a scenario selects, in the order of the
\* result: by first appearance of the group, then by descending demand, then
\* by position
ExpectedOrder(sc) ==
    LET input == files["demand.json"]
        sel == {j \in DOMAIN input : input[j]["forecast_id"] = sc.forecast}
        first(j) == CHOOSE m \in sel :
                        /\ KeyOf(input[m]) = KeyOf(input[j])
                        /\ \A n \in sel :
                              KeyOf(input[n]) = KeyOf(input[j]) => m <= n
        before(j, m) ==
            IF first(j) # first(m) THEN first(j) < first(m)
            ELSE IF input[j]["demand_mbps"] # input[m]["demand_mbps"]
            THEN RatLT(input[m]["demand_mbps"], input[j]["demand_mbps"])
            ELSE j < m
    IN  CHOOSE q \in [1..Cardinality(sel) -> sel] :
            \A i, k \in 1..Cardinality(sel) : i < k => before(q[i], q[k])

\* the allocation list of a scenario as the two input files determine it
ExpectedList(sc) ==
    LET input == files["demand.json"]
        supply == files["supply.json"]
        order == ExpectedOrder(sc)
        D(j) == SumOver([m \in DOMAIN input |-> input[m]["demand_mbps"]],
                        {m \in DOMAIN input :
                            /\ input[m]["forecast_id"] = sc.forecast
                            /\ KeyOf(input[m]) = KeyOf(input[j])})
        S(j) == SumOver([m \in DOMAIN supply |-> supply[m].supply_mbps],
                        {m \in DOMAIN supply :
                            /\ supply[m].projection_id = sc.projection
                            /\ supply[m].service_area = input[j]["service_area"]})
        share(j) == ProportionalShare(input[j]["demand_mbps"], D(j), S(j))
    IN  [i \in DOMAIN order |->
            Allocated(input[order[i]],
                      Round2(share(order[i])),
                      IF RatLT(Zero, input[order[i]]["demand_mbps"])
                      THEN Round1(RatMul(RatDiv(share(order[i]),
                                                input[order[i]]["demand_mbps"]),
                                         Hundred))
                      ELSE Hundred,
                      sc.name)]

MaxPermuted == 4   \* longest combined list whose permutations are tried

\* the one-to-one maps of the positions of a list onto themselves
Reorderings(n) == {q \in [1..n -> 1..n] : Range(q) = 1..n}

C17_OneRecordPerDemand ==
    pc = "tag" =>
        /\ Origins # {}
        /\ Len(allocations) = Cardinality(Selected)
        /\ \A i \in DOMAIN allocations :
              /\ Allocation(i)["forecast_id"] = scenarios[exp_i].forecast
              /\ \E j \in Selected :
                    /\ DOMAIN Allocation(i) =
                          DOMAIN heap[demand_data[j]]
                             \cup {"allocated_mbps", "satisfaction_pct"}
                    /\ \A k \in DOMAIN heap[demand_data[j]] :
                          Allocation(i)[k] = heap[demand_data[j]][k]

\* the input holds a record of each forecast; the call returns one record,
\* with the position and the time of the record of its forecast
C17_Witness ==
    /\ pc = "tag"
    /\ Len(demand_data) = 2
    /\ Len(allocations) = 1
    /\ \E j \in Selected :
          /\ Allocation(1)["lat"] = heap[demand_data[j]]["lat"]
          /\ Allocation(1)["lon"] = heap[demand_data[j]]["lon"]
          /\ Allocation(1)["timestamp"] = heap[demand_data[j]]["timestamp"]
    /\ "allocated_mbps" \in DOMAIN Allocation(1)

\* the fair shares of the entities of the group in hand, as lines 84-91 work
\* them out
GroupShares ==
    [i \in DOMAIN sorted_entities |->
        FairShare(heap[sorted_entities[i]]["demand_mbps"], total_demand,
                  total_supply)]

\* their sum
ShareSum == SumOver(GroupShares, DOMAIN sorted_entities)

\* the group in hand has a demand, and it is at least the supply
Short == RatLT(Zero, total_demand) /\ RatLE(total_supply, total_demand)

\* no fair share of the group in hand exceeds the demand of its entity
SharesWithinDemand ==
    \A i \in DOMAIN sorted_entities :
        RatLE(GroupShares[i], heap[sorted_entities[i]]["demand_mbps"])

Duplicates(j, k) ==
    /\ j # k
    /\ \A f \in {"entity_id", "service_area", "epoch", "forecast_id"} :
          heap[demand_data[j]][f] = heap[demand_data[k]][f]

\* the scenario of a name
ScenarioOf(name) == CHOOSE sc \in Range(experiments) : sc.name = name

\* the positions of demand_data that a scenario serves in an area
AreaInputs(name, area) ==
    {j \in DOMAIN demand_data :
        /\ heap[demand_data[j]]["forecast_id"] = ScenarioOf(name).forecast
        /\ heap[demand_data[j]]["service_area"] = area}

\* C19: duplicate demand records are not merged.  The total_demand of a
\* group is the sum over all its input records, every position counting;
\* the result has as many records of a group as the input has of it; and the
\* summary entry of an (experiment, service_area) pair has the demand summed
\* over all the input records of the pair, the allocation summed over all
\* its allocation records, and each entity counted once.
C19_DuplicatesKept ==
    /\ pc = "entities" =>
          total_demand = GroupDemandOf(demand_by_area_epoch[group_i].key)
    /\ pc = "tag" =>
          \A i \in DOMAIN allocations :
              Cardinality(GroupAllocations(KeyOf(Allocation(i)))) =
                  Cardinality(GroupInputs(KeyOf(Allocation(i))))
    /\ pc = "done" =>
          \A exp \in DOMAIN summary : \A area \in DOMAIN summary[exp] :
              /\ Cardinality(PairRecords(exp, area)) =
                    Cardinality(AreaInputs(exp, area))
              /\ summary[exp][area].total_demand_mbps =
                    Round2(SumOver([j \in DOMAIN demand_data |->
                                       heap[demand_data[j]]["demand_mbps"]],
                                   AreaInputs(exp, area)))
              /\ summary[exp][area].total_allocated_mbps =
                    Round2(PairSum(exp, area, "allocated_mbps"))
              /\ summary[exp][area].entity_count =
                    Cardinality({heap[demand_data[j]]["entity_id"] :
                                    j \in AreaInputs(exp, area)})

\* the input is two records of one entity in one group, with a demand; the
\* summary counts one entity with the sum of the two demands, and
\* the combined list holds two records of the pair
C19_Witness ==
    /\ pc = "done"
    /\ Len(demand_data) = 2
    /\ Duplicates(1, 2)
    /\ \E exp \in DOMAIN summary : \E area \in DOMAIN summary[exp] :
          /\ summary[exp][area].entity_count = 1
          /\ Cardinality(PairRecords(exp, area)) = 2
          /\ RatLT(Zero, summary[exp][area].total_allocated_mbps)
          /\ summary[exp][area].total_demand_mbps =
                RatAdd(heap[demand_data[1]]["demand_mbps"],
                       heap[demand_data[2]]["demand_mbps"])

\* C20: every allocation record has 0 <= satisfaction_pct <= 100, and a
\* record whose own demand_mbps is 0 has satisfaction_pct 100 and
\* allocated_mbps 0, whatever the demand of the other entities of its group
\* and the supply.
C20_SatisfactionRange ==
    \A i \in DOMAIN allocations :
        LET r == Allocation(i)
        IN  /\ RatLE(Zero, r["satisfaction_pct"])
            /\ RatLE(r["satisfaction_pct"], Hundred)
            /\ r["demand_mbps"] = Zero =>
                  /\ r["satisfaction_pct"] = Hundred
                  /\ r["allocated_mbps"] = Zero

\* an entity without demand in a group where another entity asks for more
\* than the supply, which is not zero, and is satisfied in part
C20_Witness ==
    /\ pc = "tag"
    /\ \E i, k \in DOMAIN allocations :
          /\ KeyOf(Allocation(i)) = KeyOf(Allocation(k))
          /\ Allocation(i)["demand_mbps"] = Zero
          /\ RatLT(Zero, CapacityOf(Allocation(k)["service_area"]))
          /\ RatLT(CapacityOf(Allocation(k)["service_area"]),
                   Allocation(k)["demand_mbps"])
          /\ RatLT(Zero, Allocation(k)["satisfaction_pct"])
          /\ RatLT(Allocation(k)["satisfaction_pct"], Hundred)

\* the entities of the group in hand, taken in the order q
Reordered(q) == [i \in DOMAIN sorted_entities |-> sorted_entities[q[i]]]

\* the fair share of an entity of the group in hand, lines 84-91
ShareOf(entity) ==
    FairShare(heap[entity]["demand_mbps"], total_demand, total_supply)

\* remaining_supply after the loop of line 82 has served the first n entities
\* of order, lines 77 and 94-95
RECURSIVE RemainingAfter(_, _)
RemainingAfter(order, n) ==
    IF n = 0 THEN total_supply
    ELSE LET before == RemainingAfter(order, n - 1)
         IN  Fl(RatSub(before, Clamp(ShareOf(order[n]), before)))

\* C21: in exact arithmetic, with inputs that are not negative, at every step
\* of the loop over a group remaining_supply >= 0 and remaining_supply >= the
\* fair share of the entity to serve, so that min(fair_share,
\* remaining_supply) is the fair share: the allocation of every entity is its
\* fair share, in the order of the sort and in every other order of the
\* group's entities.
C21_ClampNeverBinds ==
    (pc = "entities" /\ mantissa_bits = 0) =>
        /\ remaining_supply = RemainingAfter(sorted_entities, ent_i - 1)
        /\ RatLE(Zero, remaining_supply)
        /\ RatLE(GroupShares[ent_i], remaining_supply)
        /\ ent_i > 1 =>
              /\ fair_share = GroupShares[ent_i - 1]
              /\ allocated = fair_share
        /\ \A q \in Reorderings(Len(sorted_entities)) :
              \A n \in DOMAIN sorted_entities :
                  LET before == RemainingAfter(Reordered(q), n - 1)
                      share == ShareOf(Reordered(q)[n])
                  IN  /\ RatLE(Zero, before)
                      /\ RatLE(share, before)
                      /\ Clamp(share, before) = share

\* a group of three entities of different demands with less supply than
\* demand: the loop is at the last entity, and what remains is exactly the
\* fair share of that entity
C21_Witness ==
    /\ pc = "entities"
    /\ mantissa_bits = 0
    /\ Len(sorted_entities) = MaxGroupLen
    /\ ent_i = Len(sorted_entities)
    /\ RatLT(total_supply, total_demand)
    /\ RatLT(Zero, remaining_supply)
    /\ remaining_supply = GroupShares[ent_i]
    /\ allocated = fair_share
    /\ heap[sorted_entities[1]]["demand_mbps"] #
          heap[sorted_entities[ent_i]]["demand_mbps"]

\* the demand records of a group under the forecast in hand, in input order
GroupInputList(key) ==
    SelectSeq(Deref(heap, demand_data),
              LAMBDA d : /\ d["forecast_id"] = scenarios[exp_i].forecast
                         /\ KeyOf(d) = key)

\* the allocation records of a group, in the order of the result
GroupResult(key) ==
    SelectSeq(Deref(heap, allocations), LAMBDA r : KeyOf(r) = key)

\* the allocation records that the demand records of one group (input, in
\* input order), the supply S of their area and the name of the scenario
\* determine: by descending demand, then by position
GroupExpected(input, S, name) ==
    LET D == SumOver([j \in DOMAIN input |-> input[j]["demand_mbps"]],
                     DOMAIN input)
        before(j, m) ==
            IF input[j]["demand_mbps"] # input[m]["demand_mbps"]
            THEN RatLT(input[m]["demand_mbps"], input[j]["demand_mbps"])
            ELSE j < m
        order == CHOOSE q \in Reorderings(Len(input)) :
                     \A i, k \in DOMAIN input : i < k => before(q[i], q[k])
        share(j) == ProportionalShare(input[j]["demand_mbps"], D, S)
    IN  [i \in DOMAIN input |->
            Allocated(input[order[i]],
                      Round2(share(order[i])),
                      IF RatLT(Zero, input[order[i]]["demand_mbps"])
                      THEN Round1(RatMul(RatDiv(share(order[i]),
                                                input[order[i]]["demand_mbps"]),
                                         Hundred))
                      ELSE Hundred,
                      name)]

\* C22: the allocation records of a (service_area, epoch) group are the ones
\* that the demand records of the group and the total supply of its area
\* determine, whatever records of other areas and other epochs the input
\* holds; and every group of an area, whatever its epoch and whatever was
\* allocated to the groups before it, starts with the whole supply of the
\* area.
C22_GroupIndependent ==
    /\ pc = "entities" =>
          /\ total_supply =
                ProjectionSupply(demand_by_area_epoch[group_i].key[1])
          /\ ent_i = 1 => remaining_supply = total_supply
    /\ pc = "save" =>
          \A i \in DOMAIN allocations :
              LET key == KeyOf(Allocation(i))
              IN  GroupResult(key) =
                     GroupExpected(GroupInputList(key),
                                   ProjectionSupply(key[1]),
                                   scenarios[exp_i].name)

\* two epochs of one area with supply: the record of the first epoch is
\* allocated the whole supply of the area, and the record of the second epoch
\* is allocated its whole demand
C22_Witness ==
    /\ pc = "save"
    /\ \E i, k \in DOMAIN allocations :
          /\ i < k
          /\ Allocation(i)["service_area"] = Allocation(k)["service_area"]
          /\ Allocation(i)["epoch"] # Allocation(k)["epoch"]
          /\ RatLT(Zero, ProjectionSupply(Allocation(i)["service_area"]))
          /\ Allocation(i)["allocated_mbps"] =
                ProjectionSupply(Allocation(i)["service_area"])
          /\ RatLT(Zero, Allocation(k)["allocated_mbps"])
          /\ Allocation(k)["satisfaction_pct"] = Hundred

\* C23, as stated: in a run of generate_all_data that starts on an empty data
\* directory, supply.json and demand.json are both in the directory when
\* generate_allocations loads them, and no run ends on a missing file.
\* Violated: supply generation runs before service_areas.json is written
\* and writes nothing, so that the first run ends on FileNotFoundError at
\* line 129 of generate_allocations.py.
C23_PipelineCompletes ==
    /\ pc = "load" => InputFiles \subseteq DOMAIN files
    /\ raised # "FileNotFoundError"

====
